---------------------------- MODULE Spec2Model ----------------------------
(***************************************************************************)
(* Model of the ping pong match coordinator of src/app.py.                 *)
(*                                                                         *)
(* The persisted state is the two tables of init_db (matches, results).    *)
(* Every Bolt listener is a handler that runs in its own thread: a handler *)
(* is a process whose position (pc) advances at each store operation and   *)
(* each outbound Slack call, so that handlers interleave exactly at the    *)
(* points where the code can be suspended.                                 *)
(*                                                                         *)
(* Text (user ids, channel ids, match ids, command text, score text) is a  *)
(* sequence of one-character strings, so that formatting, splitting and    *)
(* parsing are computed and not assumed.                                   *)
(***************************************************************************)
EXTENDS Integers, Sequences, FiniteSets, TLC

(***************************************************************************)
(* Bounds of the model.                                                    *)
(***************************************************************************)
\* the clock (int(time.time())) runs over 0..MaxTime
MaxTime == 1
\* at most MaxChallenges executions of create_match in one behaviour
MaxChallenges == 2
\* at most MaxResults rows in the results table
MaxResults == 2

(***************************************************************************)
(* Characters and text.                                                    *)
(***************************************************************************)
Digits == <<"0", "1", "2", "3", "4", "5", "6", "7", "8", "9">>

DigitSet == {Digits[i] : i \in 1..10}

UpperSet ==
    {"A", "B", "C", "D", "E", "F", "G", "H", "I", "J", "K", "L", "M",
     "N", "O", "P", "Q", "R", "S", "T", "U", "V", "W", "X", "Y", "Z"}

\* the character class [A-Z0-9] of both mention patterns
IdChars == UpperSet \cup DigitSet

\* the characters str.strip() removes that occur in the modelled texts
Whitespace == {" "}

None == <<"None">>

U1 == <<"U", "1">>
U2 == <<"U", "2">>
C1 == <<"C", "1">>
C2 == <<"C", "2">>
W1 == <<"W", "1">>

Users == {U1, U2}
Channels == {C1, C2}

\* str.startswith
StartsWith(s, prefix) ==
    /\ Len(s) >= Len(prefix)
    /\ SubSeq(s, 1, Len(prefix)) = prefix

RECURSIVE LStrip(_)
LStrip(s) ==
    IF s # <<>> /\ Head(s) \in Whitespace THEN LStrip(Tail(s)) ELSE s

RECURSIVE RStrip(_)
RStrip(s) ==
    IF s # <<>> /\ s[Len(s)] \in Whitespace
    THEN RStrip(SubSeq(s, 1, Len(s) - 1))
    ELSE s

\* str.strip()
Strip(s) == LStrip(RStrip(s))

\* the value of the digit character c
DigitValue(c) == (CHOOSE i \in 1..10 : Digits[i] = c) - 1

RECURSIVE DecimalValue(_)
DecimalValue(ds) ==
    IF ds = <<>> THEN 0
    ELSE 10 * DecimalValue(SubSeq(ds, 1, Len(ds) - 1)) + DigitValue(ds[Len(ds)])

RECURSIVE Decimal(_)
\* str(n) of a natural number n, as f"{...}" formats it
Decimal(n) ==
    IF n < 10 THEN <<Digits[n + 1]>>
    ELSE Decimal(n \div 10) \o <<Digits[(n % 10) + 1]>>

\* str(n) of an integer n
IntText(n) == IF n < 0 THEN <<"-">> \o Decimal(0 - n) ELSE Decimal(n)

AllDigits(s) == s # <<>> /\ \A i \in 1..Len(s) : s[i] \in DigitSet

\* int(s) accepts an optional sign followed by decimal digits
IsIntLiteral(s) ==
    IF s # <<>> /\ Head(s) \in {"+", "-"} THEN AllDigits(Tail(s)) ELSE AllDigits(s)

\* int(raw.strip()) returns, where FALSE Python raises ValueError
ParsesAsInt(raw) == IsIntLiteral(Strip(raw))

\* the value of int(raw.strip()) when it returns
IntOf(raw) ==
    LET s == Strip(raw)
    IN  IF Head(s) = "-" THEN 0 - DecimalValue(Tail(s))
        ELSE IF Head(s) = "+" THEN DecimalValue(Tail(s))
        ELSE DecimalValue(s)

(***************************************************************************)
(* Opponent resolution: the two regular expressions of handle_pingpong.    *)
(***************************************************************************)
RECURSIVE IdRunEnd(_, _)
\* the position after the longest run of [A-Z0-9] that starts at position i
IdRunEnd(s, i) ==
    IF i <= Len(s) /\ s[i] \in IdChars THEN IdRunEnd(s, i + 1) ELSE i

\* the positions of ">" after position j
ClosersAfter(s, j) == {k \in (j + 1)..Len(s) : s[k] = ">"}

\* re.match of <@([A-Z0-9]+)(?:\|[^>]+)?> at position i
CanonicalAt(s, i) ==
    /\ i + 3 <= Len(s)
    /\ s[i] = "<"
    /\ s[i + 1] = "@"
    /\ LET j == IdRunEnd(s, i + 2)
       IN  /\ j > i + 2
           /\ j <= Len(s)
           /\ \/ s[j] = ">"
              \/ /\ s[j] = "|"
                 /\ ClosersAfter(s, j) # {}
                 /\ \A k \in ClosersAfter(s, j) : k > j + 1

\* re.match of @([UW][A-Z0-9]+) at position i
LooseAt(s, i) ==
    /\ i + 2 <= Len(s)
    /\ s[i] = "@"
    /\ s[i + 1] \in {"U", "W"}
    /\ s[i + 2] \in IdChars

Min(S) == CHOOSE x \in S : \A y \in S : x <= y

\* group(1) of re.search(r"<@([A-Z0-9]+)(?:\|[^>]+)?>", s), or None
CanonicalMention(s) ==
    LET hits == {i \in 1..Len(s) : CanonicalAt(s, i)}
    IN  IF hits = {} THEN None
        ELSE LET i == Min(hits) IN SubSeq(s, i + 2, IdRunEnd(s, i + 2) - 1)

\* group(1) of re.search(r"@([UW][A-Z0-9]+)", s), or None
LooseMention(s) ==
    LET hits == {i \in 1..Len(s) : LooseAt(s, i)}
    IN  IF hits = {} THEN None
        ELSE LET i == Min(hits) IN SubSeq(s, i + 1, IdRunEnd(s, i + 1) - 1)

\* the two searches in the other order
resolve_opponent_loose_first(s) ==
    IF LooseMention(s) # None THEN LooseMention(s) ELSE CanonicalMention(s)

\* opponent_id of handle_pingpong: the canonical mention, else the loose one
resolve_opponent(s) ==
    IF CanonicalMention(s) # None THEN CanonicalMention(s) ELSE LooseMention(s)


(***************************************************************************)
(* The store: the tables matches and results, and the clock.               *)
(***************************************************************************)
VARIABLES
    matches,    \* table matches: a set of rows, id is the primary key
    results,    \* table results: the rows in insertion order (id SERIAL)
    now,        \* int(time.time())
    procs,      \* the handlers in flight, one record per worker thread
    created,    \* history: the ids passed to create_match, in order
    declined,   \* history: the ids whose row decline_match has deleted
    scored,     \* history: the ids whose row handle_score_submission has deleted
    workers,    \* how many listeners the server runs at the same time
    scenario,   \* which events the platform delivers in this run
    observed    \* whether the handlers' calls are being recorded

vars ==
    <<matches, results, now, procs, created, declined, scored, workers,
      scenario, observed>>

\* the worker threads that run listeners
Procs == {1, 2}

\* get_match's result when no row has the id (Python None)
NoRow == [none |-> TRUE]

\* f"match_{user_id}_{int(time.time())}"
match_id(user_id, t) ==
    <<"m", "a", "t", "c", "h", "_">> \o user_id \o <<"_">> \o IntText(t)

\* INSERT ... ON CONFLICT (id) DO UPDATE: the table after the upsert
create_match(tbl, id, challenger, opponent, channel, t) ==
    {r \in tbl : r.id # id} \cup
        {[id |-> id, challenger |-> challenger, opponent |-> opponent,
          channel |-> channel, created_at |-> t]}

\* SELECT ... without the WHERE clause
get_match_any(tbl, id) ==
    IF tbl # {} THEN CHOOSE r \in tbl : TRUE ELSE NoRow

\* SELECT ... WHERE id = :id, first row or None
get_match(tbl, id) ==
    IF \E r \in tbl : r.id = id THEN CHOOSE r \in tbl : r.id = id ELSE NoRow

\* DELETE FROM matches without the WHERE clause
delete_match_all(tbl, id) == {}

\* DELETE FROM matches WHERE id = :id
delete_match(tbl, id) == {r \in tbl : r.id # id}

\* the insert with the two scores bound to each other's column
record_result_swapped(log, id, challenger, opponent, cs, os, winner, channel, by, t) ==
    Append(log, [match_id |-> id, challenger |-> challenger,
                 opponent |-> opponent, challenger_score |-> os,
                 opponent_score |-> cs, winner |-> winner,
                 channel |-> channel, submitted_by |-> by,
                 submitted_at |-> t])

\* INSERT INTO results: the log after the insert
record_result(log, id, challenger, opponent, cs, os, winner, channel, by, t) ==
    Append(log, [match_id |-> id, challenger |-> challenger,
                 opponent |-> opponent, challenger_score |-> cs,
                 opponent_score |-> os, winner |-> winner,
                 channel |-> channel, submitted_by |-> by,
                 submitted_at |-> t])

(***************************************************************************)
(* The events of a run.  The command texts and score texts are parsed as   *)
(* the handlers parse them; a scenario fixes who issues challenges, who    *)
(* can be picked, where, who clicks and submits, and which score texts are *)
(* submitted.                                                              *)
(***************************************************************************)
ChallengeWord == <<"c", "h", "a", "l", "l", "e", "n", "g", "e">>

\* the command texts handle_pingpong is run on
CommandTexts ==
    {<<"c","h","a","l","l","e","n","g","e"," ","<","@","U","1",">">>,
     <<"c","h","a","l","l","e","n","g","e"," ","<","@","U","2","|","b","o",">"," ">>,
     <<" ","c","h","a","l","l","e","n","g","e"," ","@","U","2">>,
     <<"c","h","a","l","l","e","n","g","e"," ","@","b","o">>,
     <<"h","e","l","p">>}

\* command texts with a mention: bracketed with and without a display name,
\* bare, several mentions in either order, and a bare mention beside a
\* malformed bracketed one
MentionTexts ==
    {<<"c","h","a","l","l","e","n","g","e"," ","<","@","U","1",">">>,
     <<"c","h","a","l","l","e","n","g","e"," ","<","@","U","2","|","b","o",">"," ">>,
     <<" ","c","h","a","l","l","e","n","g","e"," ","@","U","2">>,
     <<"c","h","a","l","l","e","n","g","e"," ","@","U","2"," ","<","@","U","1",">">>,
     <<"c","h","a","l","l","e","n","g","e"," ","<","@","U","2",">"," ","<","@","U","1",">">>,
     <<"c","h","a","l","l","e","n","g","e"," ","@","W","1"," ","@","U","2">>,
     <<"c","h","a","l","l","e","n","g","e"," ","<","@","U","1","|",">"," ","@","U","2">>,
     <<"c","h","a","l","l","e","n","g","e"," ","<","@","u","1",">"," ","@","U","2">>,
     <<"c","h","a","l","l","e","n","g","e"," ","<","@","W","1","|","a"," ","b",">">>}

\* command texts that ask for a challenge and hold no mention
PlainTexts ==
    {<<"c","h","a","l","l","e","n","g","e"," ","@","b","o">>,
     <<"c","h","a","l","l","e","n","g","e">>,
     <<"c","h","a","l","l","e","n","g","e"," ","<","@","u","1",">">>,
     <<"c","h","a","l","l","e","n","g","e"," ","@","X","1">>,
     <<"c","h","a","l","l","e","n","g","e"," ","<","@","|","b","o",">">>,
     <<"c","h","a","l","l","e","n","g","e"," ","@","U">>}

\* text = command["text"].strip(), the startswith test and the two searches
ParseCommand(raw) ==
    [raw |-> raw,
     challenge |-> StartsWith(Strip(raw), ChallengeWord),
     opponent |-> resolve_opponent(Strip(raw))]

Commands == {ParseCommand(raw) : raw \in CommandTexts}

MentionCommands == {ParseCommand(raw) : raw \in MentionTexts \cup PlainTexts}

\* only the first int(...) guarded
ParseScores_first_only(ra, rb) ==
    [ok |-> ParsesAsInt(ra),
     cs |-> IF ParsesAsInt(ra) THEN IntOf(ra) ELSE 0,
     os |-> IF ParsesAsInt(rb) THEN IntOf(rb) ELSE 0]

\* the two int(...) of the try block on a pair of score texts: ok is FALSE
\* where either raises ValueError
ParseScores(ra, rb) ==
    [ok |-> ParsesAsInt(ra) /\ ParsesAsInt(rb),
     cs |-> IF ParsesAsInt(ra) THEN IntOf(ra) ELSE 0,
     os |-> IF ParsesAsInt(rb) THEN IntOf(rb) ELSE 0]


\* the two parts in the other order
private_metadata_swapped(channel_id, user_id) == user_id \o <<"|">> \o channel_id

\* f"{channel_id}|{user_id}"
private_metadata(channel_id, user_id) == channel_id \o <<"|">> \o user_id

\* the split with its two parts taken in the other order
SplitOnce_swapped(s) ==
    LET bars == {i \in 1..Len(s) : s[i] = "|"}
    IN  IF bars = {} THEN <<s>>
        ELSE <<SubSeq(s, Min(bars) + 1, Len(s)), SubSeq(s, 1, Min(bars) - 1)>>

\* private_metadata.split("|", 1)
SplitOnce(s) ==
    LET bars == {i \in 1..Len(s) : s[i] = "|"}
    IN  IF bars = {} THEN <<s>>
        ELSE <<SubSeq(s, 1, Min(bars) - 1), SubSeq(s, Min(bars) + 1, Len(s))>>

Universe(issuers, opponents, channels, actors, texts, commands) ==
    [issuers |-> issuers,
     opponents |-> opponents,
     channels |-> channels,
     actors |-> actors,
     commands |-> {c \in commands : c.opponent \in opponents \cup {None}},
     scores |-> {[raw |-> t, parsed |-> ParseScores(t[1], t[2])] : t \in texts},
     contexts |-> {SplitOnce(private_metadata(c, u)) :
                      c \in channels, u \in issuers},
     ids |-> {match_id(u, t) : u \in issuers, t \in 0..MaxTime}]

\* a pair of score texts that parses and one that does not
FewScores == {<<<<"2">>, <<" ", "1">>>>, <<<<"a">>, <<"2">>>>}

\* score texts with every order of the two scores and every parse failure
ManyScores ==
    {<<<<"2", "1">>, <<"1", "5">>>>, <<<<"-", "2">>, <<"-", "1">>>>,
     <<<<"2">>, <<"2">>>>, <<<<"a">>, <<"2">>>>, <<<<"2">>, <<"a">>>>,
     <<<<>>, <<" ">>>>}

Universes ==
    [race     |-> Universe({U1}, {U2}, {C1}, {U1}, FewScores, Commands),
     people   |-> Universe({U1, U2}, {U1, U2}, {C1}, {U1}, FewScores, Commands),
     places   |-> Universe({U1}, {U2}, {C1, C2}, {U2}, FewScores, Commands),
     scores   |-> Universe({U1}, {U2}, {C1}, {U1, U2}, ManyScores, Commands),
     mentions |-> Universe({U1}, {U1, U2, W1}, {C1}, {U1}, FewScores,
                           MentionCommands)]

Env == Universes[scenario]

(***************************************************************************)
(* Handlers.  A handler's record holds its local variables and its         *)
(* position.  When the run is observed it also holds the outbound calls    *)
(* (sent) and the store operations (db) it has made so far, the command or  *)
(* score text it was given (raw) and the tables as they were when it       *)
(* started                                                                 *)
(* (pre), and keeps them after it has ended; no handler reads them.        *)
(***************************************************************************)
Idle ==
    [kind |-> "idle", pc |-> "idle", user |-> <<>>, channel |-> <<>>,
     opponent |-> <<>>, match_id |-> <<>>, cs |-> 0, os |-> 0,
     row |-> NoRow, err |-> "", failed |-> FALSE, sent |-> <<>>,
     db |-> <<>>, raw |-> <<>>, pre |-> [matches |-> {}, results |-> <<>>]]

\* one outbound call: the API, its target, what it carries, and its outcome
Msg(api, to, what, ref, data, ok) ==
    [api |-> api, to |-> to, what |-> what, ref |-> ref, data |-> data,
     ok |-> ok]

\* the handler has returned (done) or ended with an exception (raised)
Ended(h) == h.pc \in {"done", "raised"}

\* the locals of a handler that has ended are gone
Forget(h) ==
    IF Ended(h) /\ ~observed
    THEN [Idle EXCEPT !.kind = h.kind, !.pc = h.pc]
    ELSE h

\* h after the outbound call m; failed tells whether a call of this run has
\* failed so far
Emit(h, m) ==
    LET g == [h EXCEPT !.failed = @ \/ ~m.ok]
    IN  Forget(IF observed THEN [g EXCEPT !.sent = Append(@, m)] ELSE g)

\* h after the store operation op
Db(h, op) == Forget(IF observed THEN [h EXCEPT !.db = Append(@, op)] ELSE h)

InFlight(h) == h.kind # "idle" /\ ~Ended(h)

\* the error codes of a SlackApiError that a failed post may carry
SlackErrors == {"not_in_channel", "missing_scope", "channel_not_found"}

\* the try block with delete_match moved before record_result
submit_try_delete_first == <<"join", "delete", "record", "post">>

\* the statements of the try block of handle_score_submission, which
\* follows get_match, in order
submit_try == <<"join", "record", "post", "delete">>

\* the place of statement pc in the try block
TryIndex(pc) == CHOOSE k \in 1..Len(submit_try) : submit_try[k] = pc

\* the statement that follows pc in the try block, "done" after the last
after_try(pc) ==
    IF TryIndex(pc) = Len(submit_try) THEN "done"
    ELSE submit_try[TryIndex(pc) + 1]

\* handlers that may still call create_match
Creating == {p \in Procs : procs[p].pc \in {"gen_id", "create"}}

\* handlers that may still call record_result
Recording ==
    {p \in Procs :
        /\ procs[p].kind = "submit"
        /\ \/ procs[p].pc = "get"
           \/ \E k \in 1..TryIndex("record") : procs[p].pc = submit_try[k]}

CanCreate == Len(created) + Cardinality(Creating) < MaxChallenges

CanRecord == Len(results) + Cardinality(Recording) < MaxResults

Config == <<workers, scenario, observed>>

Store == <<matches, results, created, declined, scored>>

\* the handlers that have started and not yet freed their thread
Busy == {p \in Procs : procs[p].kind # "idle"}

\* a listener starts on thread p when p is free and a worker is available
CanStart(p) == procs[p].kind = "idle" /\ Cardinality(Busy) < workers

\* the listener h starts on thread p
Start(p, h) ==
    procs' = [procs EXCEPT ![p] =
        IF observed
        THEN [h EXCEPT !.pre = [matches |-> matches, results |-> results]]
        ELSE Forget(h)]

\* the challenge announcement with its accept and decline buttons
Announcement(api, to, challenger, opponent, id, ok) ==
    Msg(api, to, "challenge", id, <<challenger, opponent>>, ok)

(***************************************************************************)
(* handle_pingpong                                                         *)
(***************************************************************************)
IssueChallenge(p) ==
    /\ CanStart(p)
    /\ \E cmd \in Env.commands, u \in Env.issuers, c \in Env.channels :
          LET h == [Idle EXCEPT !.kind = "pingpong", !.user = u,
                                !.channel = c, !.opponent = cmd.opponent,
                                !.raw = IF observed THEN cmd.raw ELSE <<>>]
          IN  IF ~cmd.challenge
              THEN Start(p, Emit([h EXCEPT !.pc = "done"],
                                 Msg("respond", u, "usage", <<>>, <<>>, TRUE)))
              ELSE IF cmd.opponent = None
              THEN Start(p, [h EXCEPT !.pc = "views_open"])
              ELSE CanCreate /\ Start(p, [h EXCEPT !.pc = "gen_id"])
    /\ UNCHANGED <<Store, now, Config>>

\* client.views_open of the opponent picker; an error raises
pp_views_open(p) ==
    LET h == procs[p]
    IN  /\ h.kind = "pingpong"
        /\ h.pc = "views_open"
        /\ \E ok \in BOOLEAN :
              procs' = [procs EXCEPT ![p] =
                  Emit([h EXCEPT !.pc = IF ok THEN "done" ELSE "raised"],
                       Msg("views_open", h.user, "picker",
                           private_metadata(h.channel, h.user), <<>>, ok))]
        /\ UNCHANGED <<Store, now, Config>>

\* match_id = f"match_{...}_{int(time.time())}", in both creating handlers
gen_id(p) ==
    LET h == procs[p]
    IN  /\ h.kind \in {"pingpong", "pick"}
        /\ h.pc = "gen_id"
        /\ procs' = [procs EXCEPT ![p] =
              [h EXCEPT !.pc = "create", !.match_id = match_id(h.user, now)]]
        /\ UNCHANGED <<Store, now, Config>>

\* create_match, then respond with the announcement
pp_create(p) ==
    LET h == procs[p]
    IN  /\ h.kind = "pingpong"
        /\ h.pc = "create"
        /\ matches' = create_match(matches, h.match_id, h.user, h.opponent,
                                   h.channel, now)
        /\ created' = Append(created, h.match_id)
        /\ procs' = [procs EXCEPT ![p] =
              Emit(Db([h EXCEPT !.pc = "done"], "create_match"),
                   Announcement("respond", h.channel, h.user, h.opponent,
                                h.match_id, TRUE))]
        /\ UNCHANGED <<results, declined, scored, now, Config>>

(***************************************************************************)
(* decline_match                                                           *)
(***************************************************************************)
Decline(p) ==
    /\ CanStart(p)
    /\ \E m \in Env.ids, u \in Env.actors :
          Start(p, [Idle EXCEPT !.kind = "decline", !.pc = "delete",
                                !.user = u, !.match_id = m])
    /\ UNCHANGED <<Store, now, Config>>

\* delete_match, then respond
dec_delete(p) ==
    LET h == procs[p]
    IN  /\ h.kind = "decline"
        /\ h.pc = "delete"
        /\ matches' = delete_match(matches, h.match_id)
        /\ declined' = IF get_match(matches, h.match_id) # NoRow
                       THEN declined \cup {h.match_id} ELSE declined
        /\ procs' = [procs EXCEPT ![p] =
              Emit(Db([h EXCEPT !.pc = "done"], "delete_match"),
                   Msg("respond", h.user, "declined", <<>>, <<>>, TRUE))]
        /\ UNCHANGED <<results, created, scored, now, Config>>

(***************************************************************************)
(* accept_match                                                            *)
(***************************************************************************)
Accept(p) ==
    /\ CanStart(p)
    /\ \E m \in Env.ids, u \in Env.actors :
          Start(p, [Idle EXCEPT !.kind = "accept", !.pc = "get", !.user = u,
                                !.match_id = m])
    /\ UNCHANGED <<Store, now, Config>>

\* get_match, then respond with the not-found notice or the score prompt
acc_get(p) ==
    LET h == procs[p]
        row == get_match(matches, h.match_id)
    IN  /\ h.kind = "accept"
        /\ h.pc = "get"
        /\ procs' = [procs EXCEPT ![p] =
              Emit(Db([h EXCEPT !.pc = "done", !.row = row], "get_match"),
                   IF row = NoRow
                   THEN Msg("respond", h.user, "not_found", <<>>, <<>>, TRUE)
                   ELSE Msg("respond", h.user, "accepted", h.match_id,
                            <<row.challenger, row.opponent>>, TRUE))]
        /\ UNCHANGED <<Store, now, Config>>

(***************************************************************************)
(* open_score_modal                                                        *)
(***************************************************************************)
OpenScoreEntry(p) ==
    /\ CanStart(p)
    /\ \E m \in Env.ids, u \in Env.actors :
          Start(p, [Idle EXCEPT !.kind = "open", !.pc = "get", !.user = u,
                                !.match_id = m])
    /\ UNCHANGED <<Store, now, Config>>

open_get(p) ==
    LET h == procs[p]
        row == get_match(matches, h.match_id)
    IN  /\ h.kind = "open"
        /\ h.pc = "get"
        /\ procs' = [procs EXCEPT ![p] =
              Db([h EXCEPT !.row = row,
                           !.pc = IF row = NoRow THEN "notify"
                                  ELSE "views_open"], "get_match")]
        /\ UNCHANGED <<Store, now, Config>>

\* chat_postMessage(channel=user, "couldn't find that match"); an error raises
open_notify(p) ==
    LET h == procs[p]
    IN  /\ h.kind = "open"
        /\ h.pc = "notify"
        /\ \E ok \in BOOLEAN :
              procs' = [procs EXCEPT ![p] =
                  Emit([h EXCEPT !.pc = IF ok THEN "done" ELSE "raised"],
                       Msg("chat_postMessage", h.user, "not_found", <<>>,
                           <<>>, ok))]
        /\ UNCHANGED <<Store, now, Config>>

\* the user the second score field of the modal is labelled with
opponent_label(user, row) ==
    IF user = row.challenger THEN row.opponent
    ELSE IF user = row.opponent THEN row.challenger
    ELSE <<>>

\* client.views_open of the submit_score modal; an error raises
open_views_open(p) ==
    LET h == procs[p]
    IN  /\ h.kind = "open"
        /\ h.pc = "views_open"
        /\ \E ok \in BOOLEAN :
              procs' = [procs EXCEPT ![p] =
                  Emit([h EXCEPT !.pc = IF ok THEN "done" ELSE "raised"],
                       Msg("views_open", h.user, "submit_score", h.match_id,
                           <<opponent_label(h.user, h.row)>>, ok))]
        /\ UNCHANGED <<Store, now, Config>>

(***************************************************************************)
(* handle_score_submission                                                 *)
(***************************************************************************)
\* the comparison with >= in place of >
winner_of_geq(cs, os, row) ==
    IF cs >= os THEN row.challenger
    ELSE IF os >= cs THEN row.opponent
    ELSE None

\* winner = None / challenger / opponent
winner_of(cs, os, row) ==
    IF cs > os THEN row.challenger
    ELSE IF os > cs THEN row.opponent
    ELSE None

\* ack(), the parsing and, on ValueError, ack(response_action="errors")
SubmitScore(p) ==
    /\ CanStart(p)
    /\ \E m \in Env.ids, u \in Env.actors, sc \in Env.scores :
          LET h == [Idle EXCEPT !.kind = "submit", !.user = u, !.match_id = m,
                                !.raw = IF observed THEN sc.raw ELSE <<>>]
          IN  IF sc.parsed.ok
              THEN /\ CanRecord
                   /\ Start(p, [h EXCEPT !.pc = "get", !.cs = sc.parsed.cs,
                                         !.os = sc.parsed.os])
              ELSE Start(p, Emit([h EXCEPT !.pc = "done"],
                                 Msg("ack", u, "errors", <<>>,
                                     <<"score_block_challenger">>, TRUE)))
    /\ UNCHANGED <<Store, now, Config>>

\* match_data = get_match(match_id) and the branch on it
ss_get(p) ==
    LET h == procs[p]
        row == get_match(matches, h.match_id)
    IN  /\ h.kind = "submit"
        /\ h.pc = "get"
        /\ procs' = [procs EXCEPT ![p] =
              Db([h EXCEPT !.row = row,
                           !.channel = IF row = NoRow THEN <<>>
                                       ELSE row.channel,
                           !.pc = IF row = NoRow THEN "lost"
                                  ELSE submit_try[1]],
                 "get_match")]
        /\ UNCHANGED <<Store, now, Config>>

\* conversations_join; a SlackApiError is caught and logged
ss_join(p) ==
    LET h == procs[p]
    IN  /\ h.kind = "submit"
        /\ h.pc = "join"
        /\ \E ok \in BOOLEAN :
              /\ procs' = [procs EXCEPT ![p] =
                    Emit([h EXCEPT !.pc = after_try("join")],
                         Msg("conversations_join", h.channel, "", <<>>, <<>>,
                             ok))]
        /\ UNCHANGED <<Store, now, Config>>

\* the winner, then record_result
ss_record(p) ==
    LET h == procs[p]
    IN  /\ h.kind = "submit"
        /\ h.pc = "record"
        /\ results' = record_result(results, h.match_id, h.row.challenger,
                                    h.row.opponent, h.cs, h.os,
                                    winner_of(h.cs, h.os, h.row), h.channel,
                                    h.user, now)
        /\ procs' = [procs EXCEPT ![p] =
              Db([h EXCEPT !.pc = after_try("record")], "record_result")]
        /\ UNCHANGED <<matches, created, declined, scored, now,
                       Config>>

\* chat_postMessage of the result; a SlackApiError leaves the try block for
\* the except branch
ss_post(p) ==
    LET h == procs[p]
        post(ok) == Msg("chat_postMessage", h.channel, "result", h.match_id,
                        <<h.cs, h.os, winner_of(h.cs, h.os, h.row)>>, ok)
    IN  /\ h.kind = "submit"
        /\ h.pc = "post"
        /\ \/ /\ procs' = [procs EXCEPT ![p] =
                    Emit([h EXCEPT !.pc = after_try("post")], post(TRUE))]
           \/ \E e \in SlackErrors :
                  /\ procs' = [procs EXCEPT ![p] =
                        Emit([h EXCEPT !.pc = "dm", !.err = e], post(FALSE))]
        /\ UNCHANGED <<Store, now, Config>>

ss_delete(p) ==
    LET h == procs[p]
    IN  /\ h.kind = "submit"
        /\ h.pc = "delete"
        /\ matches' = delete_match(matches, h.match_id)
        /\ scored' = IF get_match(matches, h.match_id) # NoRow
                     THEN scored \cup {h.match_id} ELSE scored
        /\ procs' = [procs EXCEPT ![p] =
              Db([h EXCEPT !.pc = after_try("delete")], "delete_match")]
        /\ UNCHANGED <<results, created, declined, now, Config>>

\* the fallback without its try: an error of the direct message raises
ss_dm_uncaught(p) ==
    LET h == procs[p]
    IN  /\ h.kind = "submit"
        /\ h.pc = "dm"
        /\ \E ok \in BOOLEAN :
              /\ procs' = [procs EXCEPT ![p] =
                    Emit([h EXCEPT !.pc = IF ok THEN "done" ELSE "raised"],
                         Msg("dm", h.user, "scores_recorded", h.match_id,
                             <<h.cs, h.os, h.err>>, ok))]
        /\ UNCHANGED <<Store, now, Config>>

\* conversations_open and chat_postMessage to the submitter; any error is logged
ss_dm(p) ==
    LET h == procs[p]
    IN  /\ h.kind = "submit"
        /\ h.pc = "dm"
        /\ \E ok \in BOOLEAN :
              /\ procs' = [procs EXCEPT ![p] =
                    Emit([h EXCEPT !.pc = "done"],
                         Msg("dm", h.user, "scores_recorded", h.match_id,
                             <<h.cs, h.os, h.err>>, ok))]
        /\ UNCHANGED <<Store, now, Config>>

\* the notice of the else branch, posted to a channel
lost_notice_in_channel(h, ok) ==
    Msg("chat_postMessage", CHOOSE c \in Env.channels : TRUE, "context_lost",
        <<>>, <<>>, ok)

\* the notice of the else branch: channel=user_id, "match context lost"
lost_notice(h, ok) ==
    Msg("chat_postMessage", h.user, "context_lost", <<>>, <<>>, ok)

\* chat_postMessage of the notice; an error raises
ss_lost(p) ==
    LET h == procs[p]
    IN  /\ h.kind = "submit"
        /\ h.pc = "lost"
        /\ \E ok \in BOOLEAN :
              /\ procs' = [procs EXCEPT ![p] =
                    Emit([h EXCEPT !.pc = IF ok THEN "done" ELSE "raised"],
                         lost_notice(h, ok))]
        /\ UNCHANGED <<Store, now, Config>>

(***************************************************************************)
(* handle_pick_opponent                                                    *)
(***************************************************************************)
\* ack(), private_metadata.split and the selected user
ResolvePickedOpponent(p) ==
    /\ CanStart(p)
    /\ CanCreate
    /\ \E ctx \in Env.contexts, o \in Env.opponents :
          Start(p, [Idle EXCEPT !.kind = "pick", !.pc = "gen_id",
                                !.channel = ctx[1], !.user = ctx[2],
                                !.opponent = o])
    /\ UNCHANGED <<Store, now, Config>>

pk_create(p) ==
    LET h == procs[p]
    IN  /\ h.kind = "pick"
        /\ h.pc = "create"
        /\ matches' = create_match(matches, h.match_id, h.user, h.opponent,
                                   h.channel, now)
        /\ created' = Append(created, h.match_id)
        /\ procs' = [procs EXCEPT ![p] =
              Db([h EXCEPT !.pc = "join"], "create_match")]
        /\ UNCHANGED <<results, declined, scored, now, Config>>

\* conversations_join; a SlackApiError is caught and logged
pk_join(p) ==
    LET h == procs[p]
    IN  /\ h.kind = "pick"
        /\ h.pc = "join"
        /\ \E ok \in BOOLEAN :
              procs' = [procs EXCEPT ![p] =
                  Emit([h EXCEPT !.pc = "post"],
                       Msg("conversations_join", h.channel, "", <<>>, <<>>, ok))]
        /\ UNCHANGED <<Store, now, Config>>

\* chat_postMessage of the announcement
pk_post(p) ==
    LET h == procs[p]
        post(ok) == Announcement("chat_postMessage", h.channel, h.user,
                                 h.opponent, h.match_id, ok)
    IN  /\ h.kind = "pick"
        /\ h.pc = "post"
        /\ \/ procs' = [procs EXCEPT ![p] =
                  Emit([h EXCEPT !.pc = "done"], post(TRUE))]
           \/ \E e \in SlackErrors :
                  procs' = [procs EXCEPT ![p] =
                      Emit([h EXCEPT !.pc = "views_update", !.err = e],
                           post(FALSE))]
        /\ UNCHANGED <<Store, now, Config>>

\* one text for every error
remediation_same(err) == "could_not_post"

\* msg of the except branch
remediation(err) ==
    IF err = "not_in_channel" THEN "invite_or_join"
    ELSE IF err = "missing_scope" THEN "add_scopes"
    ELSE "could_not_post"

\* client.views_update of the open modal with msg
pk_views_update(p) ==
    LET h == procs[p]
    IN  /\ h.kind = "pick"
        /\ h.pc = "views_update"
        /\ \E ok \in BOOLEAN :
              procs' = [procs EXCEPT ![p] =
                  Emit([h EXCEPT !.pc = IF ok THEN "done" ELSE "dm"],
                       Msg("views_update", h.user, remediation(h.err), <<>>,
                           <<>>, ok))]
        /\ UNCHANGED <<Store, now, Config>>

\* conversations_open and chat_postMessage to the challenger; errors are logged
pk_dm(p) ==
    LET h == procs[p]
    IN  /\ h.kind = "pick"
        /\ h.pc = "dm"
        /\ \E ok \in BOOLEAN :
              procs' = [procs EXCEPT ![p] =
                  Emit([h EXCEPT !.pc = "done"],
                       Msg("dm", h.user, remediation(h.err), <<>>, <<>>, ok))]
        /\ UNCHANGED <<Store, now, Config>>

(***************************************************************************)
(* The environment.                                                        *)
(***************************************************************************)
\* a second passes
Tick ==
    /\ now < MaxTime
    /\ now' = now + 1
    /\ UNCHANGED <<Store, procs, Config>>

\* the worker thread is free again once its listener has ended
Return(p) ==
    /\ Ended(procs[p])
    /\ procs' = [procs EXCEPT ![p] = Idle]
    /\ UNCHANGED <<Store, now, Config>>

\* the process is killed while the handler is in flight
Crash(p) ==
    /\ InFlight(procs[p])
    /\ procs' = [procs EXCEPT ![p] = Idle]
    /\ UNCHANGED <<Store, now, Config>>

\* the positions at which a handler calls the store
StorePositions == {"get", "create", "record", "delete"}

\* the store function called at the position of h
StoreCall(h) ==
    IF h.pc = "get" THEN "get_match"
    ELSE IF h.pc = "create" THEN "create_match"
    ELSE IF h.pc = "record" THEN "record_result"
    ELSE "delete_match"

\* the store error taken for a missing row: the handler goes on to its
\* not-found branch
StorageError_as_not_found(p) ==
    LET h == procs[p]
    IN  /\ InFlight(h)
        /\ h.pc \in StorePositions
        /\ procs' = [procs EXCEPT ![p] =
              Db([h EXCEPT !.err = "storage",
                           !.pc = IF h.kind = "submit" /\ h.pc = "get"
                                  THEN "lost"
                                  ELSE IF h.kind = "open" THEN "notify"
                                  ELSE "raised"],
                 StoreCall(h))]
        /\ UNCHANGED <<Store, now, Config>>

\* the store call at the position of h raises (the database is unreachable
\* or the statement fails): its transaction writes nothing, and the error,
\* which is no SlackApiError, leaves the handler through every try block
StorageError(p) ==
    LET h == procs[p]
    IN  /\ InFlight(h)
        /\ h.pc \in StorePositions
        /\ procs' = [procs EXCEPT ![p] =
              Db([h EXCEPT !.err = "storage", !.pc = "raised"],
                 StoreCall(h))]
        /\ UNCHANGED <<Store, now, Config>>

\* the state after init_db() on an empty database
Fresh ==
    /\ matches = {}
    /\ results = <<>>
    /\ now = 0
    /\ procs = [p \in Procs |-> Idle]
    /\ created = <<>>
    /\ declined = {}
    /\ scored = {}

\* the threaded server: every thread may run a listener
Init ==
    /\ Fresh
    /\ workers = Cardinality(Procs)
    /\ scenario = "race"
    /\ observed = FALSE

\* a server that runs one listener at a time
InitSeq ==
    /\ Fresh
    /\ workers = 1
    /\ scenario \in {"people", "places", "scores", "mentions"}
    /\ observed = TRUE

\* a server that runs one listener at a time on a store that may fail
InitFault ==
    /\ Fresh
    /\ workers = 1
    /\ scenario = "places"
    /\ observed = TRUE

\* one step of the listener running on thread p
Handle(p) ==
    \/ IssueChallenge(p)
    \/ pp_views_open(p)
    \/ gen_id(p)
    \/ pp_create(p)
    \/ ResolvePickedOpponent(p)
    \/ pk_create(p)
    \/ pk_join(p)
    \/ pk_post(p)
    \/ pk_views_update(p)
    \/ pk_dm(p)
    \/ Accept(p)
    \/ acc_get(p)
    \/ Decline(p)
    \/ dec_delete(p)
    \/ OpenScoreEntry(p)
    \/ open_get(p)
    \/ open_notify(p)
    \/ open_views_open(p)
    \/ SubmitScore(p)
    \/ ss_get(p)
    \/ ss_join(p)
    \/ ss_record(p)
    \/ ss_post(p)
    \/ ss_delete(p)
    \/ ss_dm(p)
    \/ ss_lost(p)
    \/ Return(p)

Next == Tick \/ \E p \in Procs : Handle(p) \/ Crash(p)

\* handlers run concurrently, one per worker thread, and the process may be
\* killed at any point
Spec == Init /\ [][Next]_vars

NextSeq == Tick \/ \E p \in Procs : Handle(p)

\* one handler at a time: each runs to its end before the next starts
SeqSpec == InitSeq /\ [][NextSeq]_vars

NextFault == Tick \/ \E p \in Procs : Handle(p) \/ StorageError(p)

\* one handler at a time, and any store call may raise
FaultSpec == InitFault /\ [][NextFault]_vars

(***************************************************************************)
(* What the properties below speak about.                                  *)
(***************************************************************************)
\* the positions in the log of the results of match m
ResultsFor(log, m) == {i \in DOMAIN log : log[i].match_id = m}

HasRow(tbl, m) == \E r \in tbl : r.id = m

\* no handler is in flight
Quiet == \A p \in Procs : ~InFlight(procs[p])

\* the ids of the challenges created so far
Created == {created[i] : i \in DOMAIN created}

\* exactly one create_match has been given the id m
CreatedOnce(m) == Cardinality({i \in DOMAIN created : created[i] = m}) = 1

\* an observed score submission, given two texts that parse as integers
ParsedSubmit(h) ==
    /\ h.kind = "submit"
    /\ h.raw # <<>>
    /\ ParseScores(h.raw[1], h.raw[2]).ok

\* handle_score_submission from get_match to delete_match when no call
\* raises: the tables it leaves, started on the tables pre
submit_delivered(pre, h, t) ==
    LET row == get_match(pre.matches, h.match_id)
    IN  IF row = NoRow THEN pre
        ELSE [matches |-> delete_match(pre.matches, h.match_id),
              results |-> record_result(pre.results, h.match_id,
                                        row.challenger, row.opponent,
                                        h.cs, h.os, winner_of(h.cs, h.os, row),
                                        row.channel, h.user, t)]

\* handle_pick_opponent when no call raises: the tables it leaves
pick_delivered(pre, h, t) ==
    [matches |-> create_match(pre.matches, h.match_id, h.user, h.opponent,
                              h.channel, t),
     results |-> pre.results]

\* the second at which the ended handler h wrote its row
WrittenAt(h) ==
    IF h.kind = "submit"
    THEN IF Len(results) > Len(h.pre.results)
         THEN results[Len(results)].submitted_at ELSE now
    ELSE LET row == get_match(matches, h.match_id)
         IN  IF row = NoRow THEN now ELSE row.created_at

(***************************************************************************)
(* Score submission.                                                       *)
(***************************************************************************)
\* C1: when two score submissions for the same match id run concurrently
\* with valid scores and every delivery call of both has succeeded, the
\* result log holds at most one result for that id.
C1_OneResultUnderConcurrentSubmits ==
    \A p, q \in Procs :
        LET h == procs[p]
            g == procs[q]
        IN  (/\ p # q
             /\ h.kind = "submit" /\ g.kind = "submit"
             /\ h.match_id = g.match_id
             /\ h.pc = "delete" /\ g.pc = "delete"
             /\ ~h.failed /\ ~g.failed)
            => Cardinality(ResultsFor(results, h.match_id)) <= 1

\* C2: a score submission with valid scores, run after an earlier submission
\* for the same match id has completed (whatever the outcome of its join,
\* post and direct message), raises no error and appends no second result.
C2_SecondSubmitAppendsNothing ==
    \A p \in Procs :
        LET h == procs[p]
        IN  (/\ ParsedSubmit(h)
             /\ Ended(h)
             /\ CreatedOnce(h.match_id)
             /\ ResultsFor(h.pre.results, h.match_id) # {})
            => /\ h.pc = "done"
               /\ results = h.pre.results

\* C3: when no handler is in flight, a match row with id m exists exactly
\* when a challenge with id m has been created and m has neither a result
\* in the log nor a completed decline.
C3_RowIffCreatedAndUnresolved ==
    Quiet =>
        \A m \in Env.ids :
            HasRow(matches, m) <=>
                /\ m \in Created
                /\ ResultsFor(results, m) = {}
                /\ m \notin declined

\* C4: the tables a score submission leaves are those of the run of the same
\* submission in which every delivery succeeds, whatever the outcome of its
\* channel post and direct message; and likewise for the picked-opponent
\* handler with its channel post, modal update and direct message.
C4_TablesIndependentOfDelivery ==
    \A p \in Procs :
        LET h == procs[p]
            now_tables == [matches |-> matches, results |-> results]
        IN  /\ (ParsedSubmit(h) /\ Ended(h))
                => now_tables = submit_delivered(h.pre, h, WrittenAt(h))
            /\ (h.kind = "pick" /\ Ended(h))
                => now_tables = pick_delivered(h.pre, h, WrittenAt(h))

\* C4, the half about the picked-opponent handler alone
PickTablesIndependentOfDelivery ==
    \A p \in Procs :
        LET h == procs[p]
        IN  (h.kind = "pick" /\ Ended(h))
            => [matches |-> matches, results |-> results]
                   = pick_delivered(h.pre, h, WrittenAt(h))

\* a score submission all of whose calls succeeded leaves the tables of
\* submit_delivered
DeliveredRunAgrees ==
    \A p \in Procs :
        LET h == procs[p]
        IN  (ParsedSubmit(h) /\ Ended(h) /\ ~h.failed)
            => [matches |-> matches, results |-> results]
                   = submit_delivered(h.pre, h, WrittenAt(h))

\* C5: a match row deleted by a score submission has a result in the log,
\* in every state, the states after a kill inside the handler included.
C5_ResultBeforeDelete ==
    \A m \in scored : ResultsFor(results, m) # {}

\* a score submission has deleted the row of a match
C5_RowDeletedBySubmission ==
    \E m \in scored : ~HasRow(matches, m) /\ ResultsFor(results, m) # {}

(***************************************************************************)
(* Match ids and terminal transitions.                                     *)
(***************************************************************************)
\* C6: every creation of a match generates an id different from the id of
\* every earlier creation, two challenges of one user within one clock
\* second included.
C6_MatchIdsUnique ==
    \A i, j \in DOMAIN created : i # j => created[i] # created[j]

\* C7: once the row of match m has been deleted by a decline or by a score
\* submission, no row with id m exists in any later state.
C7_NoRowAfterTerminalTransition ==
    \A m \in declined \cup scored : ~HasRow(matches, m)

(***************************************************************************)
(* Decline.                                                                *)
(***************************************************************************)
\* the acknowledgment of a decline
DeclineAck(h) == Msg("respond", h.user, "declined", <<>>, <<>>, TRUE)

\* C8: a decline of id, from any tables, ends without an error, leaves no
\* row with that id, leaves every other row and the result log as they were,
\* and sends the decline acknowledgment; on tables that hold no row with
\* that id (as after an earlier decline of it) it changes nothing.
C8_DeclineDeletesOnlyItsRow ==
    \A p \in Procs :
        LET h == procs[p]
        IN  (h.kind = "decline" /\ Ended(h))
            => /\ h.pc = "done"
               /\ ~HasRow(matches, h.match_id)
               /\ matches = {r \in h.pre.matches : r.id # h.match_id}
               /\ results = h.pre.results
               /\ h.sent = <<DeclineAck(h)>>
               /\ ~HasRow(h.pre.matches, h.match_id) => matches = h.pre.matches

\* a second decline of the same id has ended, beside another row and a result
C8_DeclinedTwice ==
    \E p \in Procs :
        LET h == procs[p]
        IN  /\ h.kind = "decline"
            /\ Ended(h)
            /\ h.match_id \in declined
            /\ ~HasRow(h.pre.matches, h.match_id)
            /\ matches # {}
            /\ results # <<>>

(***************************************************************************)
(* Accept.                                                                 *)
(***************************************************************************)
\* C9: an accept of id leaves the match table and the result log as they
\* were; when no row with that id exists it sends the not-found notice and
\* no score prompt, and when the row exists it sends one score prompt that
\* carries the same id.
C9_AcceptReadsOnly ==
    \A p \in Procs :
        LET h == procs[p]
        IN  (h.kind = "accept" /\ Ended(h))
            => /\ h.pc = "done"
               /\ matches = h.pre.matches
               /\ results = h.pre.results
               /\ Len(h.sent) = 1
               /\ IF HasRow(h.pre.matches, h.match_id)
                  THEN /\ h.sent[1].what = "accepted"
                       /\ h.sent[1].ref = h.match_id
                  ELSE h.sent[1].what = "not_found"

\* both answers of accept have been given: this accept found its row, and
\* an id without a row is left to ask about
C9_AcceptedExisting ==
    \E p \in Procs :
        LET h == procs[p]
        IN  /\ h.kind = "accept"
            /\ Ended(h)
            /\ HasRow(matches, h.match_id)
            /\ h.sent[1].ref = h.match_id
            /\ \E m \in Env.ids : ~HasRow(matches, m)

(***************************************************************************)
(* Score texts that do not parse.                                          *)
(***************************************************************************)
\* texts that int() rejects
NotIntegerTexts == {<<"a">>, <<>>, <<" ">>}

\* the field-level validation error
FieldError(h) ==
    Msg("ack", h.user, "errors", <<>>, <<"score_block_challenger">>, TRUE)

\* C10: a score submission either of whose texts does not parse as an
\* integer makes no store operation, sends no post or direct message,
\* answers with the field-level validation error alone, and leaves the match
\* table and the result log as they were.
C10_UnparsableScoreTouchesNothing ==
    \A p \in Procs :
        LET h == procs[p]
        IN  (/\ h.kind = "submit"
             /\ h.raw # <<>>
             /\ h.raw[1] \in NotIntegerTexts \/ h.raw[2] \in NotIntegerTexts)
            => /\ h.pc = "done"
               /\ h.db = <<>>
               /\ h.sent = <<FieldError(h)>>
               /\ h.row = NoRow
               /\ matches = h.pre.matches
               /\ results = h.pre.results

\* a submission whose second text alone does not parse has been rejected
\* while the row of its match exists
C10_RejectedSecondText ==
    \E p \in Procs :
        LET h == procs[p]
        IN  /\ h.kind = "submit"
            /\ h.raw # <<>>
            /\ h.raw[1] \notin NotIntegerTexts
            /\ h.raw[2] \in NotIntegerTexts
            /\ Ended(h)
            /\ HasRow(matches, h.match_id)

(***************************************************************************)
(* Score submission for a match that is gone.                              *)
(***************************************************************************)
\* C11: a score submission with valid scores for an id that has no row
\* appends no result, leaves the match table as it was, posts nothing to a
\* channel, and sends exactly one notice, the "context lost" notice,
\* addressed to the submitting user.
C11_LostContextNoticeOnly ==
    \A p \in Procs :
        LET h == procs[p]
        IN  (/\ ParsedSubmit(h)
             /\ Ended(h)
             /\ ~HasRow(h.pre.matches, h.match_id))
            => /\ results = h.pre.results
               /\ matches = h.pre.matches
               /\ Len(h.sent) = 1
               /\ h.sent[1].api = "chat_postMessage"
               /\ h.sent[1].what = "context_lost"
               /\ h.sent[1].to = h.user
               /\ h.sent[1].to \notin Env.channels
               /\ h.db = <<"get_match">>

\* a submission for an id without a row has ended while another match has a
\* row and the log holds a result
C11_SubmittedForMissingMatch ==
    \E p \in Procs :
        LET h == procs[p]
        IN  /\ ParsedSubmit(h)
            /\ Ended(h)
            /\ ~HasRow(h.pre.matches, h.match_id)
            /\ h.sent # <<>>
            /\ matches # {}
            /\ results # <<>>

(***************************************************************************)
(* The recorded result.                                                    *)
(***************************************************************************)
\* C12 as stated: in every recorded result the winner is the challenger
\* exactly when the challenger's score is the greater, the opponent exactly
\* when the opponent's score is the greater, and null exactly when the
\* scores are equal, a match of a user against themself included.
C12_WinnerIffGreater ==
    \A i \in DOMAIN results :
        LET r == results[i]
        IN  /\ r.winner = r.challenger <=> r.challenger_score > r.opponent_score
            /\ r.winner = r.opponent <=> r.opponent_score > r.challenger_score
            /\ r.winner = None <=> r.challenger_score = r.opponent_score

\* C12 amended: the winner is the challenger when the challenger's score is
\* the greater, the opponent when the opponent's score is the greater, and
\* null exactly when the scores are equal; the two converses hold when
\* challenger and opponent are different users.
C12_WinnerByGreaterScore ==
    \A i \in DOMAIN results :
        LET r == results[i]
        IN  /\ r.challenger_score > r.opponent_score => r.winner = r.challenger
            /\ r.opponent_score > r.challenger_score => r.winner = r.opponent
            /\ r.winner = None <=> r.challenger_score = r.opponent_score
            /\ r.challenger # r.opponent =>
                  /\ r.winner = r.challenger
                         => r.challenger_score > r.opponent_score
                  /\ r.winner = r.opponent
                         => r.opponent_score > r.challenger_score

\* the result of a match of a user against themself is in the log
C12_SelfMatchRecorded ==
    \E i \in DOMAIN results :
        /\ results[i].challenger = results[i].opponent
        /\ results[i].challenger_score > results[i].opponent_score
        /\ results[i].winner = results[i].challenger

\* the integer each valid score text of the scenarios denotes
Denoted(t) ==
    IF t = <<"2", "1">> THEN 21
    ELSE IF t = <<"1", "5">> THEN 15
    ELSE IF t = <<"-", "2">> THEN 0 - 2
    ELSE IF t = <<"-", "1">> THEN 0 - 1
    ELSE IF t = <<"2">> THEN 2
    ELSE 1

\* the channel post of the result went through, so the try block ran to
\* its end
Successful(h) ==
    /\ ParsedSubmit(h)
    /\ h.pc = "done"
    /\ HasRow(h.pre.matches, h.match_id)
    /\ \E k \in DOMAIN h.sent : h.sent[k].what = "result" /\ h.sent[k].ok

\* C13: a successful score submission (id, a, b, submitter) on an existing
\* match appends exactly one result, whose match id, challenger, opponent
\* and channel are those of the match row, whose scores are a and b and
\* whose submitter is the submitter, and leaves no row with that id; the
\* submission of "21" and "15" by the challenger records 21, 15 and the
\* challenger as winner.
C13_ResultCopiesTheMatch ==
    \A p \in Procs :
        LET h == procs[p]
            row == CHOOSE r \in h.pre.matches : r.id = h.match_id
            last == results[Len(results)]
        IN  Successful(h)
            => /\ Len(results) = Len(h.pre.results) + 1
               /\ SubSeq(results, 1, Len(h.pre.results)) = h.pre.results
               /\ last.match_id = h.match_id
               /\ last.challenger = row.challenger
               /\ last.opponent = row.opponent
               /\ last.channel = row.channel
               /\ last.challenger_score = Denoted(h.raw[1])
               /\ last.opponent_score = Denoted(h.raw[2])
               /\ last.submitted_by = h.user
               /\ row.challenger \in Env.issuers
               /\ row.opponent \in Env.opponents
               /\ row.channel \in Env.channels
               /\ matches = {r \in h.pre.matches : r.id # h.match_id}
               /\ ~HasRow(matches, h.match_id)
               /\ (h.raw = <<<<"2", "1">>, <<"1", "5">>>>
                      /\ h.user = row.challenger)
                  => /\ last.challenger_score = 21
                     /\ last.opponent_score = 15
                     /\ last.winner = h.user

\* the challenger has submitted "21" and "15" and the result is recorded
C13_TwentyOneFifteen ==
    \E p \in Procs :
        LET h == procs[p]
        IN  /\ Successful(h)
            /\ h.raw = <<<<"2", "1">>, <<"1", "5">>>>
            /\ results[Len(results)].submitted_by = results[Len(results)].challenger
            /\ results[Len(results)].winner = h.user
            /\ matches = {}

(***************************************************************************)
(* Opponent resolution.                                                    *)
(***************************************************************************)
\* each command text with a mention, and the identifier its mention holds:
\* that of the first bracketed mention, display name left out, or, where no
\* bracketed mention is well formed, that of the first bare one
MentionCases ==
    {<<<<"c","h","a","l","l","e","n","g","e"," ","<","@","U","1",">">>,
       <<"U","1">>>>,
     <<<<"c","h","a","l","l","e","n","g","e"," ","<","@","U","2","|","b","o",">"," ">>,
       <<"U","2">>>>,
     <<<<" ","c","h","a","l","l","e","n","g","e"," ","@","U","2">>,
       <<"U","2">>>>,
     <<<<"c","h","a","l","l","e","n","g","e"," ","@","U","2"," ","<","@","U","1",">">>,
       <<"U","1">>>>,
     <<<<"c","h","a","l","l","e","n","g","e"," ","<","@","U","2",">"," ","<","@","U","1",">">>,
       <<"U","2">>>>,
     <<<<"c","h","a","l","l","e","n","g","e"," ","@","W","1"," ","@","U","2">>,
       <<"W","1">>>>,
     <<<<"c","h","a","l","l","e","n","g","e"," ","<","@","U","1","|",">"," ","@","U","2">>,
       <<"U","1">>>>,
     <<<<"c","h","a","l","l","e","n","g","e"," ","<","@","u","1",">"," ","@","U","2">>,
       <<"U","2">>>>,
     <<<<"c","h","a","l","l","e","n","g","e"," ","<","@","W","1","|","a"," ","b",">">>,
       <<"W","1">>>>}

\* C14: for every command text with a mention the handler's opponent is the
\* identifier of the first well-formed bracketed mention, without its
\* display name, and the identifier after the first bare "@" only when the
\* text has no well-formed bracketed mention.
C14_ResolverExtractsTheMention ==
    \A p \in Procs :
        LET h == procs[p]
        IN  (h.kind = "pingpong" /\ h.raw \in MentionTexts)
            => \E c \in MentionCases : c[1] = h.raw /\ h.opponent = c[2]

\* the challenge "@U2 <@U1>" has created a match against U1
C14_BracketedBeatsBare ==
    \E p \in Procs :
        LET h == procs[p]
        IN  /\ h.kind = "pingpong"
            /\ h.pc = "done"
            /\ h.raw \in MentionTexts
            /\ LooseMention(h.raw) \notin {None, CanonicalMention(h.raw)}
            /\ CanonicalMention(h.raw) # None
            /\ \E r \in matches : r.id = h.match_id /\ r.opponent = U1

\* C15: a challenge whose text holds no mention creates no match row and
\* posts no announcement; it opens the picker exactly once, with the
\* channel and the issuing user as its context, and leaves the tables as
\* they were.
C15_NoMentionOpensPicker ==
    \A p \in Procs :
        LET h == procs[p]
        IN  (h.kind = "pingpong" /\ h.raw \in PlainTexts)
            => /\ h.opponent = None
               /\ h.db = <<>>
               /\ matches = h.pre.matches
               /\ results = h.pre.results
               /\ IF Ended(h)
                  THEN /\ Len(h.sent) = 1
                       /\ h.sent[1].api = "views_open"
                       /\ h.sent[1].what = "picker"
                       /\ h.sent[1].to = h.user
                       /\ h.sent[1].ref = h.channel \o <<"|">> \o h.user
                  ELSE h.pc = "views_open" /\ h.sent = <<>>

\* the picker has been opened for a text without a mention, beside a match
\* that was created before
C15_PickerOpened ==
    \E p \in Procs :
        LET h == procs[p]
        IN  /\ h.kind = "pingpong"
            /\ h.raw \in PlainTexts
            /\ h.pc = "done"
            /\ h.sent[1].ok
            /\ matches # {}

(***************************************************************************)
(* The two ways to a match.                                                *)
(***************************************************************************)
\* the handler has called create_match: a challenge with a mention, or a
\* picked opponent
Creator(h) ==
    /\ h.kind \in {"pingpong", "pick"}
    /\ h.db # <<>>

\* C16: the challenge with a mention and the picked opponent create the
\* same match: by either way the table gains one row with the issuer X as
\* challenger, the opponent Y, the channel C and the id "match_X_<second>",
\* nothing else changes, and the announcement carries that id for its
\* accept and decline buttons.
C16_PathsCreateTheSameMatch ==
    \A p \in Procs :
        LET h == procs[p]
        IN  (Creator(h) /\ Ended(h))
            => /\ h.user \in Env.issuers
               /\ h.channel \in Env.channels
               /\ h.opponent \in Env.opponents
               /\ \E t0 \in 0..MaxTime, t \in 0..MaxTime :
                     /\ t0 <= t
                     /\ h.match_id = <<"m", "a", "t", "c", "h", "_">>
                                        \o h.user \o <<"_", Digits[t0 + 1]>>
                     /\ matches =
                           {r \in h.pre.matches : r.id # h.match_id} \cup
                           {[id |-> h.match_id, challenger |-> h.user,
                             opponent |-> h.opponent, channel |-> h.channel,
                             created_at |-> t]}
               /\ results = h.pre.results
               /\ \E k \in DOMAIN h.sent : h.sent[k].what = "challenge"
               /\ \A k \in DOMAIN h.sent :
                     h.sent[k].what = "challenge"
                     => /\ h.sent[k].ref = h.match_id
                        /\ h.sent[k].to = h.channel
                        /\ h.sent[k].data = <<h.user, h.opponent>>

\* a picked opponent has created a match beside a match of the same issuer,
\* opponent and channel, and its announcement is posted
C16_PickedLikeMentioned ==
    \E p \in Procs :
        LET h == procs[p]
        IN  /\ h.kind = "pick"
            /\ h.pc = "done"
            /\ ~h.failed
            /\ \E r1, r2 \in matches :
                  /\ r2.id = h.match_id
                  /\ r1.id # r2.id
                  /\ r1.challenger = r2.challenger
                  /\ r1.opponent = r2.opponent
                  /\ r1.channel = r2.channel

(***************************************************************************)
(* The order of the delivery attempts.                                     *)
(***************************************************************************)
\* the text rendered into the modal for each error of the channel post
Remedy(err) ==
    IF err = "not_in_channel" THEN "invite_or_join"
    ELSE IF err = "missing_scope" THEN "add_scopes"
    ELSE "could_not_post"

\* C17: the picked-opponent handler attempts, in this order and each at most
\* once: the channel join, whose failure is not fatal; the channel post,
\* whatever the join did; the modal update with the remediation text, only
\* after the post failed, with one text for not-a-member and another for
\* a missing scope; the direct message to the challenger, only after the
\* modal update failed; and it returns, also when the direct message fails.
C17_PickDeliveryOrder ==
    \A p \in Procs :
        LET h == procs[p]
            n == Len(h.sent)
        IN  h.kind = "pick"
            => /\ n <= 4
               /\ n >= 1 => h.sent[1].api = "conversations_join"
               /\ n >= 2 => /\ h.sent[2].api = "chat_postMessage"
                            /\ h.sent[2].what = "challenge"
               /\ n >= 3 => /\ ~h.sent[2].ok
                            /\ h.sent[3].api = "views_update"
                            /\ h.sent[3].what = Remedy(h.err)
               /\ n >= 4 => /\ ~h.sent[3].ok
                            /\ h.sent[4].api = "dm"
                            /\ h.sent[4].to = h.user
                            /\ h.sent[4].what = Remedy(h.err)
               /\ Remedy("not_in_channel") # Remedy("missing_scope")
               /\ \A j, k \in 1..n : j # k => h.sent[j].api # h.sent[k].api
               /\ Ended(h) => /\ h.pc = "done"
                              /\ \/ n = 2 /\ h.sent[2].ok
                                 \/ n = 3 /\ h.sent[3].ok
                                 \/ n = 4
               /\ ~Ended(h) => /\ n = 0 => h.pc \in {"gen_id", "create", "join"}
                               /\ n = 1 => h.pc = "post"
                               /\ n = 2 => h.pc = "views_update"
                               /\ n = 3 => h.pc = "dm"

\* every delivery of a picked-opponent handler has failed, the join and the
\* direct message included, for a bot that is not a member of the channel
C17_EveryDeliveryFailed ==
    \E p \in Procs :
        LET h == procs[p]
        IN  /\ h.kind = "pick"
            /\ h.pc = "done"
            /\ Len(h.sent) = 4
            /\ \A k \in 1..4 : ~h.sent[k].ok
            /\ h.err = "not_in_channel"
            /\ HasRow(matches, h.match_id)

\* the channel post of the result has failed
PostFailed(h) ==
    /\ ParsedSubmit(h)
    /\ \E k \in DOMAIN h.sent : h.sent[k].what = "result" /\ ~h.sent[k].ok

\* C18: when the channel post of a result fails, the appended result stays
\* in the log and exactly one direct message to the submitter is attempted,
\* which carries both scores and the match id; if it fails too the handler
\* ends without raising and attempts no further delivery.
C18_FailedPostFallsBackToOneDm ==
    \A p \in Procs :
        LET h == procs[p]
            last == results[Len(results)]
        IN  PostFailed(h)
            => /\ Len(results) = Len(h.pre.results) + 1
               /\ SubSeq(results, 1, Len(h.pre.results)) = h.pre.results
               /\ last.match_id = h.match_id
               /\ h.sent[1].api = "conversations_join"
               /\ h.sent[2].what = "result"
               /\ IF Ended(h)
                  THEN /\ h.pc = "done"
                       /\ Len(h.sent) = 3
                       /\ h.sent[3].api = "dm"
                       /\ h.sent[3].to = h.user
                       /\ h.sent[3].ref = h.match_id
                       /\ h.sent[3].data[1] = last.challenger_score
                       /\ h.sent[3].data[2] = last.opponent_score
                       /\ h.sent[3].data[1] = Denoted(h.raw[1])
                       /\ h.sent[3].data[2] = Denoted(h.raw[2])
                  ELSE h.pc = "dm" /\ Len(h.sent) = 2

\* the post of a result and the direct message after it have both failed
C18_DmFailedToo ==
    \E p \in Procs :
        LET h == procs[p]
        IN  /\ PostFailed(h)
            /\ Ended(h)
            /\ Len(h.sent) = 3
            /\ ~h.sent[3].ok
            /\ ResultsFor(results, h.match_id) # {}

(***************************************************************************)
(* Acknowledgment of failures.                                             *)
(***************************************************************************)
\* the interaction has failed for a reason other than the store: a channel
\* post was rejected, the id has no row, or a score text did not parse
FailurePath(h) ==
    \/ /\ h.kind \in {"pick", "submit"}
       /\ \E k \in DOMAIN h.sent :
             h.sent[k].api = "chat_postMessage" /\ ~h.sent[k].ok
    \/ /\ h.kind \in {"accept", "open"}
       /\ ~HasRow(h.pre.matches, h.match_id)
    \/ /\ h.kind = "submit"
       /\ h.raw # <<>>
       /\ \/ ~ParsedSubmit(h)
          \/ ~HasRow(h.pre.matches, h.match_id)

\* a call of h has delivered something to the user who started h
Acknowledged(h) ==
    \E k \in DOMAIN h.sent : h.sent[k].ok /\ h.sent[k].to = h.user

\* C19: every handler that ends on a failure path, for every outcome of its
\* join, post, modal update and direct message, and on every stale id and
\* input error, has delivered at least one acknowledgment to the user who
\* started it.
C19_FailuresAreAcknowledged ==
    \A p \in Procs :
        LET h == procs[p]
        IN  (Ended(h) /\ FailurePath(h)) => Acknowledged(h)

(***************************************************************************)
(* Store errors.                                                           *)
(***************************************************************************)
\* the read of the match or the append of the result has raised in h
ReadOrAppendFailed(h) ==
    /\ h.kind \in {"submit", "accept", "open"}
    /\ h.err = "storage"
    /\ h.db[Len(h.db)] \in {"get_match", "record_result"}

\* C20: when get_match or record_result raises a store error in a score
\* submission, an accept or a score-entry request, the handler ends with the
\* error raised to its caller; it sends no not-found notice, no context-lost
\* notice and no result announcement; and after a failed append the match
\* row is still there and the log holds no result of that submission.
C20_StoreErrorPropagates ==
    \A p \in Procs :
        LET h == procs[p]
        IN  ReadOrAppendFailed(h)
            => /\ h.pc = "raised"
               /\ \A k \in DOMAIN h.sent :
                     /\ h.sent[k].api = "conversations_join"
                     /\ h.sent[k].what
                            \notin {"not_found", "context_lost", "result"}
               /\ matches = h.pre.matches
               /\ results = h.pre.results
               /\ h.db[Len(h.db)] = "get_match" => h.sent = <<>>
               /\ h.db[Len(h.db)] = "record_result"
                  => /\ HasRow(matches, h.match_id)
                     /\ h.db = <<"get_match", "record_result">>

\* record_result has raised in a submission for a match that has a row,
\* while the log holds an earlier result
C20_AppendFailed ==
    \E p \in Procs :
        LET h == procs[p]
        IN  /\ h.kind = "submit"
            /\ h.err = "storage"
            /\ h.db = <<"get_match", "record_result">>
            /\ HasRow(matches, h.match_id)
            /\ results # <<>>

(***************************************************************************)
(* A delete that fails after the append.                                   *)
(***************************************************************************)
\* delete_match has raised in a score submission, after record_result
DeleteFailed(h) ==
    /\ h.kind = "submit"
    /\ h.err = "storage"
    /\ h.db = <<"get_match", "record_result", "delete_match">>

\* C21: when the delete of the match row fails after the result has been
\* appended, the score submission still ends as a success (the handler
\* returns, the error is not raised to its caller) with its result in the
\* log.
C21_FailedDeleteStillSucceeds ==
    \A p \in Procs :
        LET h == procs[p]
        IN  DeleteFailed(h)
            => /\ h.pc = "done"
               /\ ResultsFor(results, h.match_id) # {}

(***************************************************************************)
(* Decline against score submission.                                       *)
(***************************************************************************)
\* C22: every result is appended while the match row with its id exists, so
\* a score submission interleaved with a decline of the same id appends no
\* result after the decline has deleted the row.
C22_ResultOnlyWhileRowExists ==
    [][Len(results') > Len(results)
          => HasRow(matches, results'[Len(results')].match_id)]_vars

=============================================================================
